---- MODULE Spec2Model ----
(***************************************************************************)
(* Model of src/src/06-objects-tasks.js: Rectangle, fromJSON and the       *)
(* CssSelectorBuilder class with its global instance cssSelectorBuilder.   *)
(*                                                                         *)
(* JavaScript objects live in a heap: every object has a prototype link    *)
(* and a set of own properties; a property read walks the prototype chain. *)
(* Arrays are heap entities of their own, so two objects that reach the    *)
(* same array through their prototype chains share it.                     *)
(***************************************************************************)
EXTENDS Integers, Sequences, FiniteSets, TLC

VARIABLES heap, arrays, last, rect, rectLast, json

vars == <<heap, arrays, last, rect, rectLast, json>>

-----------------------------------------------------------------------------
(* Bounds *)

\* Number of objects the calls may create on top of the three initial ones;
\* once that many exist, the client makes no further call.
MaxObjs == 2

\* Argument strings of the builder calls and combinator strings of combine.
Values == {"", "a", "b"}
Combinators == {" ", "+"}

\* Rectangle sides range over -MaxDim .. MaxDim.
MaxDim == 3
Dims == (0 - MaxDim) .. MaxDim

\* Number of "key": value members in a JSON text given to fromJSON.
MaxMembers == 2

-----------------------------------------------------------------------------
(* JavaScript values *)

Undef == [t |-> "undef"]
Str(s) == [t |-> "str", s |-> s]
Arr(k) == [t |-> "arr", ref |-> k]
Obj(k) == [t |-> "obj", ref |-> k]
Fn(n) == [t |-> "fn", name |-> n]

\* ToBoolean
Truthy(v) == IF v.t = "undef" THEN FALSE
             ELSE IF v.t = "str" THEN v.s # ""
             ELSE TRUE

NoOwn == [f \in {} |-> Undef]

\* Property read o.f: own property first, then the prototype chain; 0 is the
\* end of the chain (Object.prototype, which has none of the names used here).
RECURSIVE Get(_, _, _)
Get(h, o, f) == IF o = 0 THEN Undef
                ELSE IF f \in DOMAIN h[o].own THEN h[o].own[f]
                ELSE Get(h, h[o].proto, f)

MethodNames == {"element", "id", "class", "attr", "pseudoClass",
                "pseudoElement", "combine", "stringify"}
FieldNames == {"el", "elID", "elClass", "elAttrs", "elPseudoClass", "elPseudoElement"}

\* Heap addresses of the objects that exist before any call.
ClassProto == 1
cssSelectorBuilder == 2
Prot == 3

ClassProtoObject == [proto |-> 0, own |-> [m \in MethodNames |-> Fn(m)]]

\* constructor() { this.prot = { el: this.el, ..., stringify: this.stringify }; }
\* evaluated for `new CssSelectorBuilder()`: the reads go through the fresh
\* instance, whose only prototype is the class prototype.
constructor ==
    LET h0 == <<ClassProtoObject, [proto |-> ClassProto, own |-> NoOwn]>>
    IN <<ClassProtoObject,
         [proto |-> ClassProto, own |-> ("prot" :> Obj(Prot))],
         [proto |-> 0,
          own |-> [f \in FieldNames \cup MethodNames |-> Get(h0, cssSelectorBuilder, f)]]>>

DuplicateError == "Element, id and pseudo-element should not occur more then one time inside the selector"
OrderError == "Selector parts should be arranged in the following order: element, id, class, attribute, pseudo-class, pseudo-element"
TypeError == "TypeError"

Throw(h, a, e) == [outcome |-> e, heap |-> h, arrays |-> a, ret |-> Undef]
Return(h, a, v) == [outcome |-> "ok", heap |-> h, arrays |-> a, ret |-> v]

\* Object.create(p) followed by obj[f] = v
CreateWith(h, p, f, v) == Append(h, [proto |-> p, own |-> (f :> v)])

-----------------------------------------------------------------------------
(* CssSelectorBuilder methods *)

element(h, a, this, value) ==
    IF Truthy(Get(h, this, "el")) THEN Throw(h, a, DuplicateError)
    ELSE IF \/ Truthy(Get(h, this, "elID"))
            \/ Truthy(Get(h, this, "elAttrs"))
            \/ Truthy(Get(h, this, "elClass"))
            \/ Truthy(Get(h, this, "elPseudoClass"))
            \/ Truthy(Get(h, this, "elPseudoElement"))
         THEN Throw(h, a, OrderError)
    ELSE IF Get(h, this, "prot").t # "obj" THEN Throw(h, a, TypeError)
    ELSE Return(CreateWith(h, Get(h, this, "prot").ref, "el", Str(value)), a,
                Obj(Len(h) + 1))

\* id that stores the value in `this` and returns `this`.
id_OnThis(h, a, this, value) ==
    IF Truthy(Get(h, this, "elID")) THEN Throw(h, a, DuplicateError)
    ELSE IF \/ Truthy(Get(h, this, "elAttrs"))
            \/ Truthy(Get(h, this, "elClass"))
            \/ Truthy(Get(h, this, "elPseudoClass"))
            \/ Truthy(Get(h, this, "elPseudoElement"))
         THEN Throw(h, a, OrderError)
    ELSE Return([h EXCEPT ![this].own = ("elID" :> Str(value)) @@ @], a, Obj(this))

id(h, a, this, value) ==
    IF Truthy(Get(h, this, "elID")) THEN Throw(h, a, DuplicateError)
    ELSE IF \/ Truthy(Get(h, this, "elAttrs"))
            \/ Truthy(Get(h, this, "elClass"))
            \/ Truthy(Get(h, this, "elPseudoClass"))
            \/ Truthy(Get(h, this, "elPseudoElement"))
         THEN Throw(h, a, OrderError)
    ELSE Return(CreateWith(h, this, "elID", Str(value)), a, Obj(Len(h) + 1))

\* obj[f] = [value] whatever obj[f] held.
PushOrCreate_Fresh(h, a, this, f, value) ==
    [outcome |-> "ok",
     heap |-> Append(h, [proto |-> this, own |-> (f :> Arr(Len(a) + 1))]),
     arrays |-> Append(a, <<value>>),
     ret |-> Obj(Len(h) + 1)]

\* The new array is stored in `this`, not in the object created from it.
PushOrCreate_OnReceiver(h, a, this, f, value) ==
    IF Truthy(Get(h, this, f))
    THEN Return(Append(h, [proto |-> this, own |-> NoOwn]),
                [a EXCEPT ![Get(h, this, f).ref] = Append(@, value)],
                Obj(Len(h) + 1))
    ELSE Return(Append([h EXCEPT ![this].own = (f :> Arr(Len(a) + 1)) @@ @],
                       [proto |-> this, own |-> NoOwn]),
                Append(a, <<value>>),
                Obj(Len(h) + 1))

\* const obj = Object.create(this);
\* if (obj[f]) obj[f].push(value); else obj[f] = [value];
PushOrCreate(h, a, this, f, value) ==
    IF Truthy(Get(h, this, f))
    THEN Return(Append(h, [proto |-> this, own |-> NoOwn]),
                [a EXCEPT ![Get(h, this, f).ref] = Append(@, value)],
                Obj(Len(h) + 1))
    ELSE Return(CreateWith(h, this, f, Arr(Len(a) + 1)),
                Append(a, <<value>>),
                Obj(Len(h) + 1))

\* class without the pseudo-class test in its guard.
class_NoPseudoClassCheck(h, a, this, value) ==
    IF \/ Truthy(Get(h, this, "elAttrs"))
       \/ Truthy(Get(h, this, "elPseudoElement"))
    THEN Throw(h, a, OrderError)
    ELSE PushOrCreate(h, a, this, "elClass", value)

\* class that appends before it tests its guard.
class_PushFirst(h, a, this, value) ==
    IF \/ Truthy(Get(h, this, "elAttrs"))
       \/ Truthy(Get(h, this, "elPseudoClass"))
       \/ Truthy(Get(h, this, "elPseudoElement"))
    THEN [PushOrCreate(h, a, this, "elClass", value) EXCEPT !.outcome = OrderError, !.ret = Undef]
    ELSE PushOrCreate(h, a, this, "elClass", value)

class(h, a, this, value) ==
    IF \/ Truthy(Get(h, this, "elAttrs"))
       \/ Truthy(Get(h, this, "elPseudoClass"))
       \/ Truthy(Get(h, this, "elPseudoElement"))
    THEN Throw(h, a, OrderError)
    ELSE PushOrCreate(h, a, this, "elClass", value)

attr(h, a, this, value) ==
    IF \/ Truthy(Get(h, this, "elPseudoClass"))
       \/ Truthy(Get(h, this, "elPseudoElement"))
    THEN Throw(h, a, OrderError)
    ELSE PushOrCreate(h, a, this, "elAttrs", value)

\* pseudoClass without its order test.
pseudoClass_NoCheck(h, a, this, value) == PushOrCreate(h, a, this, "elPseudoClass", value)

pseudoClass(h, a, this, value) ==
    IF Truthy(Get(h, this, "elPseudoElement")) THEN Throw(h, a, OrderError)
    ELSE PushOrCreate(h, a, this, "elPseudoClass", value)

\* pseudoElement without its duplicate test.
pseudoElement_NoCheck(h, a, this, value) ==
    [outcome |-> "ok",
     heap |-> Append(h, [proto |-> this, own |-> ("elPseudoElement" :> Str(value))]),
     arrays |-> a,
     ret |-> Obj(Len(h) + 1)]

pseudoElement(h, a, this, value) ==
    IF Truthy(Get(h, this, "elPseudoElement")) THEN Throw(h, a, DuplicateError)
    ELSE Return(CreateWith(h, this, "elPseudoElement", Str(value)), a, Obj(Len(h) + 1))

\* arr.forEach((s) => { resultStr = resultStr.concat(prefix).concat(s); })
RECURSIVE ForEachConcat(_, _, _, _)
ForEachConcat(resultStr, prefix, arr, i) ==
    IF i > Len(arr) THEN resultStr
    ELSE ForEachConcat(resultStr \o prefix \o arr[i], prefix, arr, i + 1)

\* The elements of the array held in this[f], or <<>> when this[f] is falsy.
Elems(h, a, this, f) == IF Truthy(Get(h, this, f)) THEN a[Get(h, this, f).ref] ELSE <<>>

\* stringify without the test of this.combined: a combined selector is
\* rendered from its (unset) fields.
stringify_IgnoreCombined(h, a, this) ==
    LET str(f) == IF Get(h, this, f).t = "str" THEN Get(h, this, f).s ELSE ""
        arr(f) == IF Get(h, this, f).t = "arr" THEN a[Get(h, this, f).ref] ELSE <<>>
        r1 == str("el")
        r2 == IF str("elID") # "" THEN r1 \o "#" \o str("elID") ELSE r1
        r3 == ForEachConcat(r2, ".", arr("elClass"), 1)
        r4 == IF arr("elAttrs") # <<>> THEN (r3 \o "[") \o arr("elAttrs")[1] \o "]" ELSE r3
        r5 == ForEachConcat(r4, ":", arr("elPseudoClass"), 1)
    IN IF str("elPseudoElement") # "" THEN r5 \o "::" \o str("elPseudoElement") ELSE r5

\* stringify that renders every attribute, not only the first.
stringify_AllAttrs(h, a, this) ==
    IF Get(h, this, "combined").t = "str" THEN Get(h, this, "combined").s
    ELSE
    LET str(f) == IF Get(h, this, f).t = "str" THEN Get(h, this, f).s ELSE ""
        arr(f) == IF Get(h, this, f).t = "arr" THEN a[Get(h, this, f).ref] ELSE <<>>
        r1 == str("el")
        r2 == IF str("elID") # "" THEN r1 \o "#" \o str("elID") ELSE r1
        r3 == ForEachConcat(r2, ".", arr("elClass"), 1)
        r4 == ForEachConcat(r3, "[", [i \in 1 .. Len(arr("elAttrs")) |-> arr("elAttrs")[i] \o "]"], 1)
        r5 == ForEachConcat(r4, ":", arr("elPseudoClass"), 1)
    IN IF str("elPseudoElement") # "" THEN r5 \o "::" \o str("elPseudoElement") ELSE r5

stringify(h, a, this) ==
    IF Truthy(Get(h, this, "combined")) THEN Get(h, this, "combined").s
    ELSE
    LET r0 == ""
        r1 == IF Truthy(Get(h, this, "el")) THEN r0 \o Get(h, this, "el").s ELSE r0
        r2 == IF Truthy(Get(h, this, "elID")) THEN r1 \o "#" \o Get(h, this, "elID").s ELSE r1
        r3 == IF Truthy(Get(h, this, "elClass")) /\ Len(Elems(h, a, this, "elClass")) # 0
              THEN ForEachConcat(r2, ".", Elems(h, a, this, "elClass"), 1) ELSE r2
        r4 == IF Truthy(Get(h, this, "elAttrs")) /\ Len(Elems(h, a, this, "elAttrs")) # 0
              THEN (r3 \o "[") \o Elems(h, a, this, "elAttrs")[1] \o "]" ELSE r3
        r5 == IF Truthy(Get(h, this, "elPseudoClass")) /\ Len(Elems(h, a, this, "elPseudoClass")) # 0
              THEN ForEachConcat(r4, ":", Elems(h, a, this, "elPseudoClass"), 1) ELSE r4
        r6 == IF Truthy(Get(h, this, "elPseudoElement"))
              THEN r5 \o "::" \o Get(h, this, "elPseudoElement").s ELSE r5
    IN r6

\* x.stringify() as a call: x.stringify must be a function.
StringifyCall(h, a, x) ==
    IF Get(h, x, "stringify").t # "fn" THEN Throw(h, a, TypeError)
    ELSE Return(h, a, Str(stringify(h, a, x)))

\* combine that stores the joined string on `this` and returns `this`.
combine_OnThis(h, a, this, selectors1, combinator, selectors2) ==
    [outcome |-> "ok",
     heap |-> [h EXCEPT ![this].own =
                 [combined |-> Str((stringify(h, a, selectors1) \o ((" " \o combinator) \o " "))
                                     \o stringify(h, a, selectors2)),
                  selectors1 |-> Obj(selectors1),
                  selectors2 |-> Obj(selectors2)] @@ @],
     arrays |-> a,
     ret |-> Obj(this)]

\* combine that joins with the bare combinator, without the two spaces.
combine_NoPad(h, a, this, selectors1, combinator, selectors2) ==
    [outcome |-> "ok",
     heap |-> Append(h, [proto |-> 0,
                         own |-> [combined |-> Str((stringify(h, a, selectors1) \o combinator)
                                                     \o stringify(h, a, selectors2)),
                                  selectors1 |-> Obj(selectors1),
                                  selectors2 |-> Obj(selectors2),
                                  stringify |-> Get(h, this, "stringify")]]),
     arrays |-> a,
     ret |-> Obj(Len(h) + 1)]

combine(h, a, this, selectors1, combinator, selectors2) ==
    LET comb == (" " \o combinator) \o " "
        s1 == StringifyCall(h, a, selectors1)
        s2 == StringifyCall(h, a, selectors2)
    IN IF s1.outcome # "ok" THEN s1
       ELSE IF s2.outcome # "ok" THEN s2
       ELSE Return(Append(h, [proto |-> 0,
                              own |-> [combined |-> Str((s1.ret.s \o comb) \o s2.ret.s),
                                       selectors1 |-> Obj(selectors1),
                                       selectors2 |-> Obj(selectors2),
                                       stringify |-> Get(h, this, "stringify")]]),
                   a, Obj(Len(h) + 1))


-----------------------------------------------------------------------------
(* Rectangle *)

\* function Rectangle(width, height), called with new. getArea is created
\* inside the call, so the parameters stay in its scope.
Rectangle(width, height) ==
    [width |-> width, height |-> height,
     scope |-> [width |-> width, height |-> height]]

\* getArea that multiplies the constructor's parameters instead of the fields.
getArea_Closure(this) == this.scope.width * this.scope.height

getArea(this) == this.width * this.height

-----------------------------------------------------------------------------
(* fromJSON *)

Num(n) == [t |-> "num", n |-> n]
Null == [t |-> "null"]
Accessor == [t |-> "accessor"]

\* A JSON text is a sequence of tokens: "{" "}" ":" "," , a key (a string
\* token, written without its quotes) or a literal (a number or null).
\* A member is the three tokens key ":" literal.
IsLiteral(tok) == tok \in {"10", "20", "null"}
IsPunct(tok) == tok \in {"{", "}", ":", ","}
Literal(tok) == IF tok = "null" THEN Null ELSE IF tok = "10" THEN Num(10) ELSE Num(20)

\* Position of key k in the member list ms, or 0.
RECURSIVE IndexOfKey(_, _, _)
IndexOfKey(ms, k, i) ==
    IF i > Len(ms) THEN 0
    ELSE IF ms[i].key = k THEN i
    ELSE IndexOfKey(ms, k, i + 1)

\* obj[k] = v on the object under construction in JSON.parse: a repeated key
\* keeps its place and takes the later value.
Define(ms, k, v) ==
    IF IndexOfKey(ms, k, 1) = 0 THEN Append(ms, [key |-> k, val |-> v])
    ELSE [ms EXCEPT ![IndexOfKey(ms, k, 1)].val = v]

SyntaxError == [ok |-> FALSE, members |-> <<>>]

\* Members of an object text from token i on; the token before i was "{" or ",".
RECURSIVE ParseMembers(_, _, _)
ParseMembers(toks, i, ms) ==
    IF i + 3 > Len(toks) THEN SyntaxError
    ELSE IF IsPunct(toks[i]) \/ IsLiteral(toks[i]) THEN SyntaxError
    ELSE IF toks[i + 1] # ":" THEN SyntaxError
    ELSE IF ~IsLiteral(toks[i + 2]) THEN SyntaxError
    ELSE IF toks[i + 3] = "}"
         THEN IF i + 3 = Len(toks)
              THEN [ok |-> TRUE, members |-> Define(ms, toks[i], Literal(toks[i + 2]))]
              ELSE SyntaxError
    ELSE IF toks[i + 3] = ","
         THEN ParseMembers(toks, i + 4, Define(ms, toks[i], Literal(toks[i + 2])))
    ELSE SyntaxError

\* JSON.parse on an object text; members in Object.keys order.
JSONParse(toks) ==
    IF Len(toks) < 2 \/ toks[1] # "{" THEN SyntaxError
    ELSE IF toks[2] = "}" THEN (IF Len(toks) = 2 THEN [ok |-> TRUE, members |-> <<>>] ELSE SyntaxError)
    ELSE ParseMembers(toks, 2, <<>>)

\* Heap of a fromJSON call: Object.prototype, the proto argument, the result.
ObjectPrototype == 1
ProtoArg == 2
NewObj == 3

\* The property named f that o[f] resolves to, as <<holder, value>>, or <<0, Undef>>.
RECURSIVE Lookup(_, _, _)
Lookup(h, o, f) == IF o = 0 THEN <<0, Undef>>
                   ELSE IF f \in DOMAIN h[o].own THEN <<o, h[o].own[f]>>
                   ELSE Lookup(h, h[o].proto, f)

\* o[key] = v. An inherited accessor runs its setter; the only accessor here
\* is Object.prototype.__proto__, whose setter replaces o's prototype when v is
\* an object or null and does nothing otherwise. Any other key becomes an own
\* data property of o.
Assign(h, o, key, v) ==
    IF Lookup(h, o, key)[2] = Accessor
    THEN IF v = Null THEN [h EXCEPT ![o].proto = 0]
         ELSE h
    ELSE [h EXCEPT ![o].own = (key :> v) @@ @]

\* [...Object.keys(obj)].forEach((key) => { newObj[key] = obj[key]; })
RECURSIVE CopyKeys(_, _, _)
CopyKeys(h, ms, i) ==
    IF i > Len(ms) THEN h
    ELSE CopyKeys(Assign(h, NewObj, ms[i].key, ms[i].val), ms, i + 1)

\* fromJSON(proto, json), proto given as the own properties of an object
\* whose prototype is Object.prototype.
fromJSON(proto, jsonText) ==
    LET obj == JSONParse(jsonText)
        h0 == <<[proto |-> 0, own |-> ("__proto__" :> Accessor)],
                [proto |-> ObjectPrototype, own |-> proto],
                [proto |-> ProtoArg, own |-> NoOwn]>>
    IN IF ~obj.ok
       THEN [outcome |-> "SyntaxError", heap |-> SubSeq(h0, 1, 2)]
       ELSE [outcome |-> "ok", heap |-> CopyKeys(h0, obj.members, 1)]

\* Prototypes a caller passes: Circle.prototype of the doc example with one
\* method, and a prototype that also carries a default radius.
Protos == {("getCircumference" :> Fn("getCircumference")),
           ("getCircumference" :> Fn("getCircumference")) @@ ("radius" :> Num(20))}

Keys == {"radius", "__proto__"}
Literals == {"10", "20", "null"}

\* Texts holding n members, well formed.
RECURSIVE MemberTexts(_)
MemberTexts(n) ==
    IF n = 0 THEN {<<>>}
    ELSE {t \o sep \o <<k, ":", l>> :
            t \in MemberTexts(n - 1), k \in Keys, l \in Literals,
            sep \in (IF n = 1 THEN {<<>>} ELSE {<<",">>})}

JsonTexts ==
    UNION {{<<"{">> \o t \o <<"}">>, <<"{">> \o t} : t \in UNION {MemberTexts(n) : n \in 0 .. MaxMembers}}

-----------------------------------------------------------------------------
(* The selector builder as a state machine: each action is one call made by *)
(* a client on cssSelectorBuilder or on an object an earlier call returned. *)

NBase == Len(constructor)

\* The objects a client holds: the exported builder and every returned object.
Receivers == {cssSelectorBuilder} \cup ((NBase + 1) .. Len(heap))

NoCall == [op |-> "none", this |-> 0, arg |-> "", s1 |-> 0, s2 |-> 0,
           outcome |-> "ok", ret |-> Undef,
           preHeap |-> constructor, preArrays |-> <<>>]

\* this[m](...): calling a property that is not a function is a TypeError.
Invoke(m, this, res) ==
    IF Get(heap, this, m).t # "fn" THEN Throw(heap, arrays, TypeError) ELSE res

Record(op, this, arg, s1, s2, res) ==
    /\ heap' = res.heap
    /\ arrays' = res.arrays
    /\ last' = [op |-> op, this |-> this, arg |-> arg, s1 |-> s1, s2 |-> s2,
                outcome |-> res.outcome, ret |-> res.ret,
                preHeap |-> heap, preArrays |-> arrays]
    /\ UNCHANGED <<rect, rectLast, json>>

\* A call of a builder method or of combine, made while the client may still
\* create objects.
Apply(op, this, arg, s1, s2, res) ==
    /\ Len(heap) < NBase + MaxObjs
    /\ Record(op, this, arg, s1, s2, res)

CallElement ==
    \E this \in Receivers, value \in Values :
        Apply("element", this, value, 0, 0,
              Invoke("element", this, element(heap, arrays, this, value)))

CallId ==
    \E this \in Receivers, value \in Values :
        Apply("id", this, value, 0, 0,
              Invoke("id", this, id(heap, arrays, this, value)))

CallClass ==
    \E this \in Receivers, value \in Values :
        Apply("class", this, value, 0, 0,
              Invoke("class", this, class(heap, arrays, this, value)))

CallAttr ==
    \E this \in Receivers, value \in Values :
        Apply("attr", this, value, 0, 0,
              Invoke("attr", this, attr(heap, arrays, this, value)))

CallPseudoClass ==
    \E this \in Receivers, value \in Values :
        Apply("pseudoClass", this, value, 0, 0,
              Invoke("pseudoClass", this, pseudoClass(heap, arrays, this, value)))

CallPseudoElement ==
    \E this \in Receivers, value \in Values :
        Apply("pseudoElement", this, value, 0, 0,
              Invoke("pseudoElement", this, pseudoElement(heap, arrays, this, value)))

\* combine is called on the exported builder, as in the doc examples; of
\* `this` it reads only this.stringify.
CallCombine ==
    \E this \in {cssSelectorBuilder}, selectors1 \in Receivers, selectors2 \in Receivers,
       combinator \in Combinators :
        Apply("combine", this, combinator, selectors1, selectors2,
              Invoke("combine", this,
                     combine(heap, arrays, this, selectors1, combinator, selectors2)))

CallStringify ==
    \E this \in Receivers :
        Record("stringify", this, "", 0, 0, StringifyCall(heap, arrays, this))

\* The doc examples: new Rectangle(10,20) and
\* fromJSON(Circle.prototype, '{"radius":10}').
DocProto == ("getCircumference" :> Fn("getCircumference"))
DocText == <<"{", "radius", ":", "10", "}">>

Init ==
    /\ heap = constructor
    /\ arrays = <<>>
    /\ last = NoCall
    /\ rect = Rectangle(10, 20)
    /\ rectLast = [op |-> "new", width |-> 10, height |-> 20, ret |-> 0]
    /\ json = [proto |-> DocProto, text |-> DocText, res |-> fromJSON(DocProto, DocText)]

Next ==
    \/ CallElement
    \/ CallId
    \/ CallClass
    \/ CallAttr
    \/ CallPseudoClass
    \/ CallPseudoElement
    \/ CallCombine
    \/ CallStringify

Spec == Init /\ [][Next]_vars

-----------------------------------------------------------------------------
(* Rectangle as a state machine: one rectangle r held by a client. *)

NewRectangle ==
    \E width \in Dims, height \in Dims :
        /\ rect' = Rectangle(width, height)
        /\ rectLast' = [op |-> "new", width |-> width, height |-> height, ret |-> 0]
        /\ UNCHANGED <<heap, arrays, last, json>>

\* r.width = width
SetWidth ==
    \E width \in Dims :
        /\ rect' = [rect EXCEPT !.width = width]
        /\ rectLast' = [op |-> "setWidth", width |-> width, height |-> rect.height, ret |-> 0]
        /\ UNCHANGED <<heap, arrays, last, json>>

\* r.height = height
SetHeight ==
    \E height \in Dims :
        /\ rect' = [rect EXCEPT !.height = height]
        /\ rectLast' = [op |-> "setHeight", width |-> rect.width, height |-> height, ret |-> 0]
        /\ UNCHANGED <<heap, arrays, last, json>>

CallGetArea ==
    /\ rectLast' = [op |-> "getArea", width |-> rect.width, height |-> rect.height,
                    ret |-> getArea(rect)]
    /\ UNCHANGED <<heap, arrays, last, rect, json>>

NextRect ==
    \/ NewRectangle
    \/ SetWidth
    \/ SetHeight
    \/ CallGetArea

SpecRect == Init /\ [][NextRect]_vars

-----------------------------------------------------------------------------
(* fromJSON as a state machine: each step is one call. *)

CallFromJSON ==
    \E proto \in Protos, text \in JsonTexts :
        /\ json' = [proto |-> proto, text |-> text, res |-> fromJSON(proto, text)]
        /\ UNCHANGED <<heap, arrays, last, rect, rectLast>>

NextJSON == CallFromJSON

SpecJSON == Init /\ [][NextJSON]_vars

-----------------------------------------------------------------------------
(* What a client can observe of a selector *)

BuilderOps == {"element", "id", "class", "attr", "pseudoClass", "pseudoElement"}

FieldOf(op) == CASE op = "element" -> "el"
                 [] op = "id" -> "elID"
                 [] op = "class" -> "elClass"
                 [] op = "attr" -> "elAttrs"
                 [] op = "pseudoClass" -> "elPseudoClass"
                 [] op = "pseudoElement" -> "elPseudoElement"

\* element < id < class < attribute < pseudo-class < pseudo-element
Rank(f) == CASE f = "el" -> 1
             [] f = "elID" -> 2
             [] f = "elClass" -> 3
             [] f = "elAttrs" -> 4
             [] f = "elPseudoClass" -> 5
             [] f = "elPseudoElement" -> 6

ScalarFields == {"el", "elID", "elPseudoElement"}
SequenceFields == {"elClass", "elAttrs", "elPseudoClass"}

\* The sequence stored in field f of s; empty when the field is unset.
SeqOf(h, a, s, f) == IF Get(h, s, f).t = "arr" THEN a[Get(h, s, f).ref] ELSE <<>>

\* The selector fields of s.
Fields(h, a, s) ==
    [element |-> Get(h, s, "el"),
     id |-> Get(h, s, "elID"),
     classes |-> SeqOf(h, a, s, "elClass"),
     attributes |-> SeqOf(h, a, s, "elAttrs"),
     pseudoClasses |-> SeqOf(h, a, s, "elPseudoClass"),
     pseudoElement |-> Get(h, s, "elPseudoElement")]

\* The fields of s together with what s.stringify() returns.
View(h, a, s) == [fields |-> Fields(h, a, s), string |-> stringify(h, a, s)]

\* A setter has stored a value in field f of s.
IsSet(h, s, f) == Get(h, s, f) # Undef

IsCombined(h, s) == "combined" \in DOMAIN h[s].own

\* The objects on the prototype chain of s, s included.
RECURSIVE Chain(_, _)
Chain(h, s) == IF s = 0 THEN {} ELSE {s} \cup Chain(h, h[s].proto)

\* Every value stored by the calls that built s is a non-empty string.
NonEmptyBuilt(h, a, s) ==
    \A o \in Chain(h, s) :
        /\ \A f \in DOMAIN h[o].own \cap ScalarFields : h[o].own[f] # Str("")
        /\ \A f \in DOMAIN h[o].own \cap SequenceFields :
             h[o].own[f].t = "arr" =>
               \A i \in 1 .. Len(a[h[o].own[f].ref]) : a[h[o].own[f].ref][i] # ""

\* The builder method named op.
Method(op, h, a, this, value) ==
    CASE op = "element" -> element(h, a, this, value)
      [] op = "id" -> id(h, a, this, value)
      [] op = "class" -> class(h, a, this, value)
      [] op = "attr" -> attr(h, a, this, value)
      [] op = "pseudoClass" -> pseudoClass(h, a, this, value)
      [] op = "pseudoElement" -> pseudoElement(h, a, this, value)

\* The last step was the builder call this.op(arg) on a selector.
BuilderCall == last.op \in BuilderOps /\ ~IsCombined(last.preHeap, last.this)

PreView == View(last.preHeap, last.preArrays, last.this)
PreFields == Fields(last.preHeap, last.preArrays, last.this)
RetFields == Fields(heap, arrays, last.ret.ref)

-----------------------------------------------------------------------------
(* Claims *)

\* C1: no builder call mutates its receiver: after s.element(v), s.id(v),
\* s.class(v), s.attr(v), s.pseudoClass(v) or s.pseudoElement(v) the fields of
\* s and the result of s.stringify() are the same as before the call.
C1_ReceiverUnchanged ==
    BuilderCall => View(heap, arrays, last.this) = PreView

\* The fields of rank later than f that are set in s.
LaterSet(h, s, f) == {g \in FieldNames : Rank(g) > Rank(f) /\ IsSet(h, s, g)}

\* C2: ordering rule. On a selector built with non-empty values, a setter call
\* fails with OrderError whenever a field of strictly later rank is already set
\* (and, for element and id, the field itself is not); so a call succeeds only
\* when no later-rank field is set, and along every selector's prototype chain
\* the fields were stored in non-decreasing rank order.
C2_OrderingRule ==
    /\ (BuilderCall /\ NonEmptyBuilt(last.preHeap, last.preArrays, last.this)) =>
         LET f == FieldOf(last.op)
             later == LaterSet(last.preHeap, last.this, f) # {}
             selfSet == last.op \in {"element", "id"} /\ IsSet(last.preHeap, last.this, f)
         IN /\ (later /\ ~selfSet) => last.outcome = OrderError
            /\ last.outcome = "ok" => ~later
    /\ \A s \in Receivers :
         NonEmptyBuilt(heap, arrays, s) =>
           \A o \in Chain(heap, s), p \in Chain(heap, s) :
             \A f \in DOMAIN heap[o].own \cap FieldNames, g \in DOMAIN heap[p].own \cap FieldNames :
               (p \in Chain(heap, heap[o].proto) /\ heap[o].own[f] # Undef /\ heap[p].own[g] # Undef)
                 => Rank(g) <= Rank(f)

C2_Witness ==
    /\ BuilderCall
    /\ last.op = "class"
    /\ last.outcome = OrderError
    /\ NonEmptyBuilt(last.preHeap, last.preArrays, last.this)
    /\ IsSet(last.preHeap, last.this, "elPseudoClass")

\* C3: at-most-once rule. On a selector built with non-empty values,
\* element(v), id(v) and pseudoElement(v) fail with DuplicateError when their
\* field is already set; so on every selector's prototype chain at most one
\* object holds a value for each of the three fields.
C3_AtMostOnce ==
    /\ (/\ BuilderCall
        /\ last.op \in {"element", "id", "pseudoElement"}
        /\ NonEmptyBuilt(last.preHeap, last.preArrays, last.this)
        /\ IsSet(last.preHeap, last.this, FieldOf(last.op)))
         => last.outcome = DuplicateError
    /\ \A s \in Receivers :
         NonEmptyBuilt(heap, arrays, s) =>
           \A f \in ScalarFields :
             Cardinality({o \in Chain(heap, s) :
                            f \in DOMAIN heap[o].own /\ heap[o].own[f] # Undef}) <= 1

C3_Witness ==
    /\ BuilderCall
    /\ last.op = "pseudoElement"
    /\ last.outcome = DuplicateError
    /\ NonEmptyBuilt(last.preHeap, last.preArrays, last.this)
    /\ IsSet(last.preHeap, last.this, "elPseudoElement")

\* prefix + x for every x of seq, in order.
RECURSIVE Prefixed(_, _)
Prefixed(prefix, seq) ==
    IF seq = <<>> THEN "" ELSE (prefix \o Head(seq)) \o Prefixed(prefix, Tail(seq))

\* The string of prefix + v.s when v is a non-empty string, else nothing.
Part(prefix, v) == IF v.t = "str" THEN (IF v.s = "" THEN "" ELSE prefix \o v.s) ELSE ""

\* The rendering the specification gives for the fields fs.
Rendered(fs) ==
    Part("", fs.element)
      \o (Part("#", fs.id)
      \o (Prefixed(".", fs.classes)
      \o ((IF fs.attributes = <<>> THEN "" ELSE "[" \o (Head(fs.attributes) \o "]"))
      \o (Prefixed(":", fs.pseudoClasses)
      \o Part("::", fs.pseudoElement)))))

\* C4: stringify() of a simple selector is element, '#' + id, '.' + c for each
\* class, '[' + a + ']' for the first attribute only, ':' + p for each
\* pseudo-class and '::' + pseudoElement, in this order; unset or empty fields
\* contribute nothing and a selector with no field set renders as ''.
C4_StringifySimple ==
    (last.op = "stringify" /\ ~IsCombined(last.preHeap, last.this)) =>
        /\ last.outcome = "ok"
        /\ last.ret = Str(Rendered(PreFields))
        /\ (\A f \in FieldNames : ~IsSet(last.preHeap, last.this, f)) => last.ret = Str("")

C4_Witness ==
    /\ last.op = "stringify"
    /\ ~IsCombined(last.preHeap, last.this)
    /\ PreFields.attributes = <<"a", "b">>
    /\ last.ret = Str("[a]")

\* C5: combine(A, c, B).stringify() = A.stringify() + ' ' + c + ' ' + B.stringify()
\* for all selectors A and B, simple or combined, and every string c; combine
\* never fails.
C5_CombineString ==
    last.op = "combine" =>
        /\ last.outcome = "ok"
        /\ stringify(heap, arrays, last.ret.ref)
             = stringify(heap, arrays, last.s1)
                 \o (" " \o (last.arg \o (" " \o stringify(heap, arrays, last.s2))))

C5_Witness ==
    /\ last.op = "combine"
    /\ last.outcome = "ok"
    /\ last.arg = " "
    /\ IsCombined(heap, last.s1)
    /\ ~IsCombined(heap, last.s2)

\* Fields fs with the one named k left out.
Except(fs, k) == [x \in (DOMAIN fs) \ {k} |-> fs[x]]

ViewName(f) == CASE f = "el" -> "element"
                 [] f = "elID" -> "id"
                 [] f = "elClass" -> "classes"
                 [] f = "elAttrs" -> "attributes"
                 [] f = "elPseudoClass" -> "pseudoClasses"
                 [] f = "elPseudoElement" -> "pseudoElement"

\* C6: a successful class(v), attr(v) or pseudoClass(v) on s returns a selector
\* whose sequence is s's sequence before the call followed by v and whose other
\* fields are s's; these calls never fail with DuplicateError. A successful
\* id(v) or pseudoElement(v) returns s with that one field set to v.
C6_AppendOrSet ==
    /\ (BuilderCall /\ last.op \in {"class", "attr", "pseudoClass"}) =>
          /\ last.outcome # DuplicateError
          /\ last.outcome = "ok" =>
               LET k == ViewName(FieldOf(last.op))
               IN /\ RetFields[k] = Append(PreFields[k], last.arg)
                  /\ Except(RetFields, k) = Except(PreFields, k)
    /\ (BuilderCall /\ last.op \in {"id", "pseudoElement"} /\ last.outcome = "ok") =>
          LET k == ViewName(FieldOf(last.op))
          IN /\ RetFields[k] = Str(last.arg)
             /\ Except(RetFields, k) = Except(PreFields, k)

C6_Witness ==
    /\ BuilderCall
    /\ last.op = "class"
    /\ last.outcome = "ok"
    /\ PreFields.classes = <<"a">>
    /\ RetFields.classes = <<"a", "b">>

\* C7: each builder call is a pure function of receiver and argument: calling
\* s.m(v) again fails with the same error, or returns a selector with the same
\* fields and stringify() result as the first call returned.
C7_Pure ==
    BuilderCall =>
        LET again == Method(last.op, heap, arrays, last.this, last.arg)
        IN /\ again.outcome = last.outcome
           /\ last.outcome = "ok" =>
                View(again.heap, again.arrays, again.ret.ref) = View(heap, arrays, last.ret.ref)

\* The objects that existed before the last call.
PreObjects == 1 .. Len(last.preHeap)

\* C8: a builder call that fails with DuplicateError or OrderError returns no
\* selector and leaves every existing selector, cssSelectorBuilder included,
\* with the fields and stringify() result it had.
C8_FailureNoEffect ==
    (BuilderCall /\ last.outcome \in {DuplicateError, OrderError}) =>
        /\ last.ret = Undef
        /\ Len(heap) = Len(last.preHeap)
        /\ Len(arrays) = Len(last.preArrays)
        /\ \A s \in PreObjects :
             View(heap, arrays, s) = View(last.preHeap, last.preArrays, s)

C8_Witness ==
    /\ BuilderCall
    /\ last.op = "class"
    /\ last.outcome = OrderError
    /\ PreFields.attributes = <<"a">>
    /\ View(heap, arrays, last.this).string = "[a]"

\* What fromJSON's result must be for the mapping the text parses to.
ParsedMembers == JSONParse(json.text).members
ParsedKeys == {ParsedMembers[i].key : i \in 1 .. Len(ParsedMembers)}

\* C9: for a text that parses to a mapping m, fromJSON(proto, json) returns a
\* new object whose own fields are exactly the keys of m with m's values and
\* which exposes proto's methods through inheritance; proto is not modified.
C9_FromJSON ==
    JSONParse(json.text).ok =>
        /\ json.res.outcome = "ok"
        /\ Len(json.res.heap) = NewObj
        /\ DOMAIN json.res.heap[NewObj].own = ParsedKeys
        /\ \A i \in 1 .. Len(ParsedMembers) :
             json.res.heap[NewObj].own[ParsedMembers[i].key] = ParsedMembers[i].val
        /\ \A k \in (DOMAIN json.proto) \ ParsedKeys :
             Lookup(json.res.heap, NewObj, k) = <<ProtoArg, json.proto[k]>>
        /\ json.res.heap[ProtoArg] = [proto |-> ObjectPrototype, own |-> json.proto]

\* C10: new Rectangle(width, height) has fields width and height equal to its
\* arguments, and getArea() returns width * height of the current fields.
C10_Rectangle ==
    /\ rectLast.op = "new" => (rect.width = rectLast.width /\ rect.height = rectLast.height)
    /\ rectLast.op = "getArea" => rectLast.ret = rect.width * rect.height

C10_Witness ==
    /\ rectLast.op = "getArea"
    /\ rect.width # rect.scope.width
    /\ rect.height # rect.scope.height
    /\ rect.width * rect.height # rect.scope.width * rect.scope.height
    /\ rectLast.ret = 0 - 6

\* C11: a field counts as set once its setter was called, even with the empty
\* string: after id('') a further id(v) fails with DuplicateError; after
\* pseudoElement('') the calls pseudoClass, attr, class, id and element fail
\* with OrderError and pseudoElement fails with DuplicateError; after
\* element('') a further element(v) fails with DuplicateError.
C11_EmptyCountsAsSet ==
    BuilderCall =>
        /\ (last.op = "id" /\ Get(last.preHeap, last.this, "elID") = Str(""))
              => last.outcome = DuplicateError
        /\ Get(last.preHeap, last.this, "elPseudoElement") = Str("")
              => last.outcome = (IF last.op = "pseudoElement" THEN DuplicateError ELSE OrderError)
        /\ (last.op = "element" /\ Get(last.preHeap, last.this, "el") = Str(""))
              => last.outcome = DuplicateError

\* The heap is the initial one or the last call changed it; the steps in
\* between leave every object as it was.
HeapChanged == last.op = "none" \/ heap # last.preHeap \/ arrays # last.preArrays

\* Every reachable heap is first reached by the construction or by a call that
\* returned an object; what holds of the heap alone is stated in those states.
FreshHeap == last.op = "none" \/ (last.outcome = "ok" /\ last.op # "stringify")

\* The selectors among the client's objects that have the builder methods.
Simple == {s \in Receivers : ~IsCombined(heap, s)}
Combined == {s \in Receivers : IsCombined(heap, s)}

\* C12: the string of a CombinedSelector is the one computed when combine was
\* called and never changes: no later call, on its operands, on selectors
\* derived from them or on cssSelectorBuilder, changes what its stringify()
\* returns.
C12_CombinedFixed ==
    /\ (last.op = "combine" /\ last.outcome = "ok") =>
          Get(heap, last.ret.ref, "combined")
            = Str(stringify(last.preHeap, last.preArrays, last.s1)
                    \o (" " \o (last.arg \o (" "
                    \o stringify(last.preHeap, last.preArrays, last.s2)))))
    /\ HeapChanged =>
          \A k \in PreObjects :
            IsCombined(last.preHeap, k) =>
              stringify(heap, arrays, k) = stringify(last.preHeap, last.preArrays, k)
    /\ FreshHeap =>
          LET before == [k \in Combined |-> stringify(heap, arrays, k)]
          IN  Combined # {} =>
                \A s \in Simple, op \in BuilderOps, v \in Values :
                  LET m == Method(op, heap, arrays, s, v)
                  IN  (m.heap # heap \/ m.arrays # arrays) =>
                        [k \in Combined |-> stringify(m.heap, m.arrays, k)] = before

\* A combined selector whose operand the next class call changes.
C12_Witness ==
    /\ last.op = "combine"
    /\ last.outcome = "ok"
    /\ last.s1 # cssSelectorBuilder
    /\ stringify(heap, arrays, last.ret.ref) = ".a + .a"
    /\ stringify(class(heap, arrays, last.s1, "b").heap,
                 class(heap, arrays, last.s1, "b").arrays, last.s1) = ".a.b"
    /\ stringify(class(heap, arrays, last.s1, "b").heap,
                 class(heap, arrays, last.s1, "b").arrays, last.ret.ref) = ".a + .a"

\* C13: when element(v) or id(v) is called on a selector in which the field
\* itself is already set and a later-order field is set too, the call fails
\* with DuplicateError, not OrderError.
C13_DuplicateFirst ==
    /\ (/\ BuilderCall
        /\ last.op \in {"element", "id"}
        /\ IsSet(last.preHeap, last.this, FieldOf(last.op))
        /\ LaterSet(last.preHeap, last.this, FieldOf(last.op)) # {})
          => last.outcome = DuplicateError
    /\ FreshHeap =>
          \A s \in Simple, op \in {"element", "id"}, v \in Values :
            (IsSet(heap, s, FieldOf(op)) /\ LaterSet(heap, s, FieldOf(op)) # {})
              => Method(op, heap, arrays, s, v).outcome = DuplicateError

\* pseudoElement of s holds a non-empty string.
HasPseudoElement(h, s) ==
    Get(h, s, "elPseudoElement").t = "str" /\ Get(h, s, "elPseudoElement").s # ""

\* The errors the claim allows a call on a terminal selector to fail with.
TerminalErrors(op) ==
    IF op \in {"element", "id"} THEN {DuplicateError, OrderError}
    ELSE IF op = "pseudoElement" THEN {DuplicateError}
    ELSE {OrderError}

\* C14: a selector whose pseudoElement is set to a non-empty value is terminal:
\* every further builder call on it fails (element and id with DuplicateError
\* or OrderError, class, attr and pseudoClass with OrderError, pseudoElement
\* with DuplicateError), so no selector was built on top of one. Conversely
\* pseudoElement(v) succeeds on every selector whose pseudoElement is not yet
\* set, whatever its other fields.
C14_PseudoElementTerminal ==
    /\ (BuilderCall /\ HasPseudoElement(last.preHeap, last.this))
          => last.outcome \in TerminalErrors(last.op)
    /\ (BuilderCall /\ last.op = "pseudoElement"
          /\ ~IsSet(last.preHeap, last.this, "elPseudoElement"))
          => last.outcome = "ok"
    /\ FreshHeap =>
          \A s \in Simple, v \in Values :
            /\ HasPseudoElement(heap, s) =>
                 \A op \in BuilderOps :
                   Method(op, heap, arrays, s, v).outcome \in TerminalErrors(op)
            /\ ~IsSet(heap, s, "elPseudoElement") =>
                 pseudoElement(heap, arrays, s, v).outcome = "ok"
    /\ HeapChanged =>
          \A s \in Receivers :
            \A o \in Chain(heap, heap[s].proto) : ~HasPseudoElement(heap, o)

\* pseudoElement('a') succeeded on a selector with a class, and every further
\* call on the result fails.
C14_Witness ==
    /\ BuilderCall
    /\ last.op = "pseudoElement"
    /\ last.outcome = "ok"
    /\ last.arg = "a"
    /\ PreFields.classes = <<"b">>
    /\ \A op \in BuilderOps, v \in Values :
         Method(op, heap, arrays, last.ret.ref, v).outcome \in {DuplicateError, OrderError}

\* The fields of a selector in which nothing is set.
NoFields ==
    [element |-> Undef, id |-> Undef, classes |-> <<>>, attributes |-> <<>>,
     pseudoClasses |-> <<>>, pseudoElement |-> Undef]

\* The fields of a selector in which only the field of setter op is set, to v.
OnlyField(op, v) ==
    [NoFields EXCEPT ![ViewName(FieldOf(op))] =
        IF FieldOf(op) \in ScalarFields THEN Str(v) ELSE <<v>>]

\* C15: cssSelectorBuilder is never modified: after any sequence of calls all
\* of its selector fields are unset, its stringify() is '', and each of its six
\* setters succeeds and returns a selector with exactly that one field set.
C15_BuilderUnmodified ==
    /\ HeapChanged =>
          /\ \A f \in FieldNames : ~IsSet(heap, cssSelectorBuilder, f)
          /\ Fields(heap, arrays, cssSelectorBuilder) = NoFields
          /\ stringify(heap, arrays, cssSelectorBuilder) = ""
    /\ FreshHeap =>
          \A op \in BuilderOps, v \in Values :
            LET m == Method(op, heap, arrays, cssSelectorBuilder, v)
            IN  /\ m.outcome = "ok"
                /\ Fields(m.heap, m.arrays, m.ret.ref) = OnlyField(op, v)

\* Two selectors were made from cssSelectorBuilder, the first by class and the
\* second by id.
C15_Witness ==
    /\ Len(heap) = NBase + 2
    /\ last.op = "id"
    /\ last.this = cssSelectorBuilder
    /\ last.outcome = "ok"
    /\ heap[NBase + 1].proto = cssSelectorBuilder
    /\ Fields(heap, arrays, NBase + 1).classes = <<"a">>
    /\ Fields(heap, arrays, NBase + 2) = OnlyField("id", last.arg)

\* The first selector of the chain of calls that built s: the object on the
\* prototype chain of s that was created from one of the initial objects.
RECURSIVE ChainRoot(_, _)
ChainRoot(h, s) == IF h[s].proto <= NBase THEN s ELSE ChainRoot(h, h[s].proto)

\* The objects the calls returned.
Returned == (NBase + 1) .. Len(heap)

\* C16: chains started separately from cssSelectorBuilder are independent: a
\* builder call on a selector of one chain changes neither the fields nor the
\* stringify() result of any selector of another chain. For the calls the
\* bound leaves out, the selectors of the other chains are the ones built by
\* the setters; C12 states the same of the combined ones.
C16_IndependentChains ==
    /\ (BuilderCall /\ last.this # cssSelectorBuilder) =>
          \A o \in PreObjects \ (1 .. NBase) :
            ChainRoot(last.preHeap, o) # ChainRoot(last.preHeap, last.this)
              => View(heap, arrays, o) = View(last.preHeap, last.preArrays, o)
    /\ FreshHeap =>
          \A s \in Simple \ {cssSelectorBuilder} :
            LET others == {o \in Simple \ {cssSelectorBuilder} :
                             ChainRoot(heap, o) # ChainRoot(heap, s)}
                before == [o \in others |-> View(heap, arrays, o)]
            IN  others # {} =>
                  \A op \in BuilderOps, v \in Values :
                    LET m == Method(op, heap, arrays, s, v)
                    IN  (m.heap # heap \/ m.arrays # arrays) =>
                          [o \in others |-> View(m.heap, m.arrays, o)] = before

\* Two chains started with class('a') on cssSelectorBuilder; a class('b') call
\* on the first changes the first and not the second.
C16_Witness ==
    /\ Len(heap) = NBase + 2
    /\ last.op = "class"
    /\ last.this = cssSelectorBuilder
    /\ heap[NBase + 1].proto = cssSelectorBuilder
    /\ heap[NBase + 2].proto = cssSelectorBuilder
    /\ stringify(heap, arrays, NBase + 1) = ".a"
    /\ stringify(heap, arrays, NBase + 2) = ".a"
    /\ stringify(class(heap, arrays, NBase + 1, "b").heap,
                 class(heap, arrays, NBase + 1, "b").arrays, NBase + 1) = ".a.b"
    /\ stringify(class(heap, arrays, NBase + 1, "b").heap,
                 class(heap, arrays, NBase + 1, "b").arrays, NBase + 2) = ".a"

\* combine(x, c, y) called on cssSelectorBuilder in the current state.
Combine(x, c, y) == combine(heap, arrays, cssSelectorBuilder, x, c, y)

\* combine(x, c, combine(y, d, z)).stringify()
RightNested(x, c, y, d, z) ==
    LET inner == Combine(y, d, z)
        outer == combine(inner.heap, inner.arrays, cssSelectorBuilder, x, c, inner.ret.ref)
    IN IF inner.outcome = "ok" /\ outer.outcome = "ok"
       THEN Str(stringify(outer.heap, outer.arrays, outer.ret.ref))
       ELSE Undef

\* combine(k, d, z).stringify() for an existing selector k
Outer(k, d, z) ==
    LET outer == Combine(k, d, z)
    IN IF outer.outcome = "ok"
       THEN Str(stringify(outer.heap, outer.arrays, outer.ret.ref))
       ELSE Undef

\* x.stringify() + ' ' + c + ' ' + y.stringify() + ' ' + d + ' ' + z.stringify()
Joined(x, c, y, d, z) ==
    Str(stringify(heap, arrays, x) \o (" " \o (c \o (" " \o (stringify(heap, arrays, y)
          \o (" " \o (d \o (" " \o stringify(heap, arrays, z)))))))))

\* C17: combine is associative on the rendered string: with K = combine(A, c1, B)
\* just returned, combine(K, c2, C).stringify() and
\* combine(A, c1, combine(B, c2, C)).stringify() are both
\* A + ' ' + c1 + ' ' + B + ' ' + c2 + ' ' + C, for every C and c2, C combined
\* or not; a CombinedSelector is accepted as either operand.
C17_CombineAssociative ==
    (last.op = "combine" /\ last.outcome = "ok") =>
        \A z \in Receivers, d \in Combinators :
            LET left == Outer(last.ret.ref, d, z)
            IN  /\ left = RightNested(last.s1, last.arg, last.s2, d, z)
                /\ left = Joined(last.s1, last.arg, last.s2, d, z)

\* K = combine(s, '+', s) for s = element('a'); nesting K on the left or on the
\* right of a further combine with ' ' and with K itself gives the same string.
C17_Witness ==
    /\ last.op = "combine"
    /\ last.outcome = "ok"
    /\ last.arg = "+"
    /\ stringify(heap, arrays, last.s1) = "a"
    /\ stringify(heap, arrays, last.s2) = "a"
    /\ Outer(last.ret.ref, " ", last.ret.ref) = Str("a + a   a + a")
    /\ RightNested(last.s1, "+", last.s2, " ", last.ret.ref) = Str("a + a   a + a")

====
